---- MODULE Spec2Model ----
(***************************************************************************)
(* UPSC Study Desk: the reconciler (FileSystem.syncToDatabase) that mirrors *)
(* a directory tree into the catalog, and the session-guarded viewer        *)
(* (StudyMode) that binds one lecture to a file on disk when it is opened.   *)
(*                                                                         *)
(* Names are sequences of one-character strings, so that normalisation,    *)
(* title derivation, classification and collation are computed.            *)
(***************************************************************************)
EXTENDS Integers, Sequences, FiniteSets, TLC

(***************************************************************************)
(* Text helpers                                                            *)
(***************************************************************************)
UpperChars == <<"A","B","C","D","E","F","G","H","I","J","K","L","M",
                "N","O","P","Q","R","S","T","U","V","W","X","Y","Z">>

LowerChars == <<"a","b","c","d","e","f","g","h","i","j","k","l","m",
                "n","o","p","q","r","s","t","u","v","w","x","y","z">>

DigitChars == <<"0","1","2","3","4","5","6","7","8","9">>

\* Characters the regular expression class \s covers in the modelled names.
SpaceChars == {" "}

IndexIn(seq, c) ==
    IF \E i \in 1..Len(seq) : seq[i] = c
    THEN CHOOSE i \in 1..Len(seq) : seq[i] = c
    ELSE 0

LowerChar(c) ==
    IF IndexIn(UpperChars, c) > 0 THEN LowerChars[IndexIn(UpperChars, c)] ELSE c

\* String.prototype.toLowerCase
toLowerCase(s) == [i \in 1..Len(s) |-> LowerChar(s[i])]

IsDigit(c) == IndexIn(DigitChars, c) > 0

IsSpace(c) == c \in SpaceChars

RECURSIVE TrimLeft(_)
TrimLeft(s) ==
    IF s # <<>> /\ IsSpace(Head(s)) THEN TrimLeft(Tail(s)) ELSE s

RECURSIVE TrimRight(_)
TrimRight(s) ==
    IF s # <<>> /\ IsSpace(s[Len(s)]) THEN TrimRight(SubSeq(s, 1, Len(s) - 1)) ELSE s

\* String.prototype.trim
trim(s) == TrimRight(TrimLeft(s))

\* Index of the last occurrence of c in s, 0 when there is none.
LastIndexOf(s, c) ==
    IF \E i \in 1..Len(s) : s[i] = c
    THEN CHOOSE i \in 1..Len(s) : s[i] = c /\ \A j \in (i+1)..Len(s) : s[j] # c
    ELSE 0

\* s.replace(/\s+/g, ' '): every run of white space becomes one blank.
RECURSIVE CollapseSpaces(_)
CollapseSpaces(s) ==
    IF s = <<>> THEN <<>>
    ELSE IF IsSpace(Head(s))
         THEN <<" ">> \o CollapseSpaces(TrimLeft(s))
         ELSE <<Head(s)>> \o CollapseSpaces(Tail(s))

(***************************************************************************)
(* FileSystem: classification, titles, folder-name matching                *)
(***************************************************************************)
supportedVideo == { <<".","m","p","4">>, <<".","m","k","v">>, <<".","w","e","b","m">> }

supportedPdf == { <<".","p","d","f">> }

\* '.' + filename.split('.').pop().toLowerCase()
FileExt(filename) ==
    <<".">> \o toLowerCase(SubSeq(filename, LastIndexOf(filename, ".") + 1, Len(filename)))

NoType == "none"

classifyFile(filename) ==
    IF FileExt(filename) \in supportedVideo THEN "video"
    ELSE IF FileExt(filename) \in supportedPdf THEN "pdf"
    ELSE NoType

\* filename.replace(/\.[^/.]+$/, ''): drops a final ".ext" when ext is non-empty
\* and holds neither '/' nor '.'.
StripExt(filename) ==
    LET k == LastIndexOf(filename, ".")
    IN IF k > 0 /\ k < Len(filename)
          /\ \A j \in (k+1)..Len(filename) : filename[j] # "/"
       THEN SubSeq(filename, 1, k - 1)
       ELSE filename

getTitleFromFilename(filename) ==
    LET nameWithoutExt == StripExt(filename)
        cleaned == [i \in 1..Len(nameWithoutExt) |->
                       IF nameWithoutExt[i] \in {"_", "-"} THEN " " ELSE nameWithoutExt[i]]
    IN trim(CollapseSpaces(cleaned))

normalizeName(name) ==
    SelectSeq(toLowerCase(name), LAMBDA c : ~(IsSpace(c) \/ c \in {"-", "_"}))

\* normalized.match(/^(gs|csat|optional|extra)(\d*)$/)
FamilyPrefixes == { <<"g","s">>, <<"c","s","a","t">>,
                    <<"o","p","t","i","o","n","a","l">>, <<"e","x","t","r","a">> }

numericMatch(normalized) ==
    \E p \in FamilyPrefixes :
        /\ Len(normalized) >= Len(p)
        /\ SubSeq(normalized, 1, Len(p)) = p
        /\ \A j \in (Len(p)+1)..Len(normalized) : IsDigit(normalized[j])

NoPaper == <<>>

PaperMatches(folderName, paper) ==
    LET normalized == normalizeName(folderName)
    IN \/ normalizeName(paper.id) = normalized
       \/ normalizeName(paper.name) = normalized
       \/ normalizeName(paper.fullName) = normalized
       \/ (numericMatch(normalized) /\ normalizeName(paper.id) = normalized)

\* The loop runs over the papers in list order; inside one paper the four
\* tests are tried in turn, and any of them returns that paper's id.
RECURSIVE matchPaperFolder(_, _)
matchPaperFolder(folderName, papers) ==
    IF papers = <<>> THEN NoPaper
    ELSE IF PaperMatches(folderName, Head(papers)) THEN Head(papers).id
    ELSE matchPaperFolder(folderName, Tail(papers))

\* DB.seed: the seven papers, in orderIndex order (AppState.refreshPapers).
initialPapers == <<
    [id |-> <<"g","s","1">>, name |-> <<"G","S","1">>,
     fullName |-> <<"G","e","n","e","r","a","l"," ","S","t","u","d","i","e","s"," ","1">>],
    [id |-> <<"g","s","2">>, name |-> <<"G","S","2">>,
     fullName |-> <<"G","e","n","e","r","a","l"," ","S","t","u","d","i","e","s"," ","2">>],
    [id |-> <<"g","s","3">>, name |-> <<"G","S","3">>,
     fullName |-> <<"G","e","n","e","r","a","l"," ","S","t","u","d","i","e","s"," ","3">>],
    [id |-> <<"g","s","4">>, name |-> <<"G","S","4">>,
     fullName |-> <<"G","e","n","e","r","a","l"," ","S","t","u","d","i","e","s"," ","4",
                    " ","(","E","t","h","i","c","s",")">>],
    [id |-> <<"c","s","a","t">>, name |-> <<"C","S","A","T">>,
     fullName |-> <<"C","i","v","i","l"," ","S","e","r","v","i","c","e","s"," ",
                    "A","p","t","i","t","u","d","e"," ","T","e","s","t">>],
    [id |-> <<"o","p","t","i","o","n","a","l">>, name |-> <<"O","p","t","i","o","n","a","l">>,
     fullName |-> <<"O","p","t","i","o","n","a","l"," ","S","u","b","j","e","c","t">>],
    [id |-> <<"e","x","t","r","a">>, name |-> <<"E","x","t","r","a">>,
     fullName |-> <<"A","d","d","i","t","i","o","n","a","l"," ",
                    "R","e","s","o","u","r","c","e","s">>] >>

paperIds == { initialPapers[i].id : i \in 1..Len(initialPapers) }

(***************************************************************************)
(* Collation: a.name.localeCompare(b.name, undefined, {numeric: true})     *)
(* Punctuation sorts before digits, digits before letters; letters compare *)
(* without regard to case first; a run of digits compares by its value.    *)
(***************************************************************************)
PunctChars == <<" ", "_", "-", ".", "(", ")">>

CharRank(c) ==
    IF IndexIn(PunctChars, c) > 0 THEN IndexIn(PunctChars, c)
    ELSE IF IsDigit(c) THEN 10 + IndexIn(DigitChars, c)
    ELSE IF IndexIn(LowerChars, LowerChar(c)) > 0 THEN 30 + IndexIn(LowerChars, LowerChar(c))
    ELSE 60

RECURSIVE DigitRunLen(_)
DigitRunLen(s) ==
    IF s # <<>> /\ IsDigit(Head(s)) THEN 1 + DigitRunLen(Tail(s)) ELSE 0

RECURSIVE DigitsValue(_, _)
DigitsValue(s, acc) ==
    IF s = <<>> THEN acc
    ELSE DigitsValue(Tail(s), acc * 10 + (IndexIn(DigitChars, Head(s)) - 1))

\* -1, 0 or 1
RECURSIVE localeCompare(_, _)
localeCompare(a, b) ==
    IF a = <<>> /\ b = <<>> THEN 0
    ELSE IF a = <<>> THEN -1
    ELSE IF b = <<>> THEN 1
    ELSE IF IsDigit(Head(a)) /\ IsDigit(Head(b))
         THEN LET la == DigitRunLen(a)
                  lb == DigitRunLen(b)
                  va == DigitsValue(SubSeq(a, 1, la), 0)
                  vb == DigitsValue(SubSeq(b, 1, lb), 0)
              IN IF va < vb THEN -1
                 ELSE IF va > vb THEN 1
                 ELSE localeCompare(SubSeq(a, la + 1, Len(a)), SubSeq(b, lb + 1, Len(b)))
    ELSE IF CharRank(Head(a)) < CharRank(Head(b)) THEN -1
    ELSE IF CharRank(Head(a)) > CharRank(Head(b)) THEN 1
    ELSE localeCompare(Tail(a), Tail(b))

(***************************************************************************)
(* The directory tree under the master folder                              *)
(***************************************************************************)
GS1 == <<"G","S","1">>

GS_1 == <<"G","S"," ","1">>

Misc == <<"M","i","s","c">>

ProvV == <<"V">>

ProvW == <<"W">>

CourseCo == <<"C","o">>

CourseC2 == <<"C","2">>

File_a == <<"a",".","m","p","4">>

File_b == <<"b",".","p","d","f">>

File_ai == <<"a","-","i",".","m","p","4">>

File_us == <<"_",".","m","p","4">>

\* The course folders that may exist: two courses of one provider, a second
\* top-level folder that also matches paper gs1, and one that matches no paper.
DirMain == <<GS1, ProvV, CourseCo>>

DirAlias == <<GS_1, ProvV, CourseCo>>

DirMisc == <<Misc, ProvV, CourseCo>>

DirTwo == <<GS1, ProvV, CourseC2>>

\* A course of a second provider of the same category.
DirW == <<GS1, ProvW, CourseCo>>

CourseDirs == { DirMain, DirTwo, DirAlias, DirMisc, DirW }

FileNames == { File_a, File_b, File_ai, File_us }

\* The files that may appear in each course folder.
FilesIn ==
    [d \in CourseDirs |->
        IF d = DirMain THEN { File_a, File_b, File_us }
        ELSE IF d = DirAlias THEN { File_a, File_ai }
        ELSE IF d = DirTwo THEN { File_ai }
        ELSE { File_a }]

\* Order in which a directory handle enumerates its entries.
EntryOrder == << GS1, Misc, GS_1, ProvV, ProvW, CourseCo, CourseC2 >>

TopNames == { d[1] : d \in CourseDirs }

\* What the pure functions return on the names that can occur on disk, computed
\* once from the functions themselves.
PaperOf == [n \in TopNames |-> matchPaperFolder(n, initialPapers)]

TypeOf == [f \in FileNames |-> classifyFile(f)]

TitleOf == [f \in FileNames |-> getTitleFromFilename(f)]

CompareOf == [a \in FileNames, b \in FileNames |-> localeCompare(a, b)]

\* files.sort(...) over the names of one folder
RECURSIVE SortFiles(_)
SortFiles(names) ==
    IF names = {} THEN <<>>
    ELSE LET m == CHOOSE x \in names : \A y \in names : CompareOf[x, y] <= 0
         IN <<m>> \o SortFiles(names \ {m})

MaxDiskOps == 2

MaxId == 6

MaxToggles == 1

MaxReorders == 1

MaxSessions == 2

MaxPage == 2

MaxTime == 1

VARIABLES
    disk,          \* course folder -> [present, files]
    unreadable,    \* course folders whose enumeration fails
    diskOps,       \* number of changes made to the tree so far
    providers,     \* object store 'providers'
    courses,       \* object store 'courses'
    lectures,      \* object store 'lectures'
    nextId,        \* next value of Utils.generateId
    syncResult,    \* outcome of the last syncToDatabase call
    cleanPasses,   \* completed passes in a row with no change in between (0..2)
    toggles,       \* number of LectureList.toggleComplete calls so far
    reorders,      \* number of LectureList.reorderLectures calls so far
    dirty,         \* the tree has changed since the last completed pass
    removed,       \* the file whose removal is the only such change, or NoRemoval
    isSyncing,     \* Sidebar: 'app:sync-start' was received and no 'app:sync-end' since
    lastOp         \* name of the last operation

VARIABLES
    activeSessionId,   \* StudyMode.activeSessionId
    currentLecture,    \* StudyMode.currentLecture (the in-memory row), or NoLecture
    currentFile,       \* StudyMode.currentFile, or NoFile
    currentObjectURL,  \* StudyMode.currentObjectURL: 0, or the session that created it
    pdfPollInterval,   \* StudyMode.pdfPollInterval: 0, or the timer's id
    player,            \* StudyMode.player: 0, or the session that created it
    playerTime,        \* player.currentTime
    mode,              \* AppState.mode
    sessions,          \* session id -> the workflow started by that enter()/exit()
    dbPending,         \* sessions awaiting a store request, in the order of issue
    timers,            \* the running setInterval timers of renderPdfViewer
    liveURLs,          \* object URLs created and not revoked
    dom,               \* what is attached to #content-area
    effects            \* log of what superseded sessions did, and of self-heal writes

syncVars == << disk, unreadable, diskOps, providers, courses, lectures, nextId,
               syncResult, cleanPasses, toggles, reorders, dirty, removed,
               isSyncing, lastOp >>

studyVars == << activeSessionId, currentLecture, currentFile, currentObjectURL,
                pdfPollInterval, player, playerTime, mode, sessions, dbPending,
                timers, liveURLs, dom, effects >>

\* One call of matchPaperFolder: its arguments and its return value.
VARIABLES
    matchIn,       \* [folderName, papers], the arguments of the call
    matchOut       \* the returned id, NoPaper for null, Pending before the call

probeVars == << matchIn, matchOut >>

vars == << syncVars, studyVars, probeVars >>

PresentDirs(dk) == { d \in CourseDirs : dk[d].present }

InOrder(names) == SelectSeq(EntryOrder, LAMBDA n : n \in names)

(***************************************************************************)
(* FileSystem.scanMasterFolder and the per-level scans, over tree dk       *)
(***************************************************************************)
scanCourseFolder(dk, d) ==
    LET names == SortFiles({ f \in dk[d].files : TypeOf[f] # NoType })
    IN [i \in 1..Len(names) |->
           [name |-> names[i], type |-> TypeOf[names[i]], dir |-> d]]

scanProviderFolder(dk, top, prov) ==
    LET names == InOrder({ d[3] : d \in { e \in PresentDirs(dk) : e[1] = top /\ e[2] = prov } })
    IN [i \in 1..Len(names) |->
           [name |-> names[i], lectures |-> scanCourseFolder(dk, <<top, prov, names[i]>>)]]

scanPaperFolder(dk, top) ==
    LET names == InOrder({ d[2] : d \in { e \in PresentDirs(dk) : e[1] = top } })
    IN [i \in 1..Len(names) |->
           [name |-> names[i], courses |-> scanProviderFolder(dk, top, names[i])]]

\* No scan level catches an enumeration error: one failing branch rejects
\* the whole scan.
scanThrows(dk, unread) == \E d \in PresentDirs(dk) : d \in unread

scanMasterFolder(dk) ==
    LET names == InOrder({ d[1] : d \in PresentDirs(dk) })
    IN [i \in 1..Len(names) |->
           [name |-> names[i], providers |-> scanPaperFolder(dk, names[i])]]

(***************************************************************************)
(* Object stores and AppState reads                                        *)
(***************************************************************************)
\* DB.put: insert or replace by key.
DBput(store, row) == { r \in store : r.id # row.id } \cup { row }

\* DB.delete: removing a missing key succeeds.
DBdelete(store, id) == { r \in store : r.id # id }

RowBefore(a, b) ==
    \/ a.orderIndex < b.orderIndex
    \/ (a.orderIndex = b.orderIndex /\ a.id <= b.id)

\* rows.sort((a, b) => a.orderIndex - b.orderIndex) over an index read
RECURSIVE SortRows(_)
SortRows(rows) ==
    IF rows = {} THEN <<>>
    ELSE LET m == CHOOSE x \in rows : \A y \in rows : RowBefore(x, y)
         IN <<m>> \o SortRows(rows \ {m})

\* Each getter reads its index when the cache entry is missing.  Inside a
\* pass ensureCourse empties the caches before the lectures of a course are
\* processed, add* drops the entry it wrote to, and ensureLecture updates the
\* cached row object in place together with the store, so what a getter
\* returns during the pass is the store's content.
getProviders(store, paperId) == SortRows({ p \in store : p.paperId = paperId })

getCourses(store, providerId) == SortRows({ c \in store : c.providerId = providerId })

getLectures(store, courseId) == SortRows({ l \in store : l.courseId = courseId })

\* Array.prototype.find: index of the first element that satisfies Test, or 0
FindIndex(seq, Test(_)) ==
    IF \E i \in 1..Len(seq) : Test(seq[i])
    THEN CHOOSE i \in 1..Len(seq) : Test(seq[i]) /\ \A j \in 1..(i-1) : ~Test(seq[j])
    ELSE 0

(***************************************************************************)
(* Invariants.validate*                                                    *)
(***************************************************************************)
validateProvider(provider, validPaperIds) ==
    /\ trim(provider.name) # <<>>
    /\ provider.paperId \in validPaperIds

validateCourse(course, validProviderIds) ==
    /\ trim(course.name) # <<>>
    /\ course.providerId \in validProviderIds

validateLecture(lecture, validCourseIds) ==
    /\ trim(lecture.title) # <<>>
    /\ lecture.courseId \in validCourseIds
    /\ lecture.type \in {"video", "pdf"}

NeverOpened == 0

(***************************************************************************)
(* One reconciliation pass.  st is the pass's view of the stores and its   *)
(* local variables; threw records that an exception left the pass.         *)
(***************************************************************************)
addProvider(st, paperId, name) ==
    LET existingProviders == getProviders(st.providers, paperId)
        provider == [id |-> st.nextId, name |-> trim(name), paperId |-> paperId,
                     orderIndex |-> Len(existingProviders)]
    IN IF ~validateProvider(provider, paperIds)
       THEN [st EXCEPT !.threw = "row"]
       ELSE [st EXCEPT !.providers = DBput(@, provider),
                       !.nextId = @ + 1, !.cur = provider.id]

ensureProvider(st, paperId, name) ==
    LET existing == getProviders(st.providers, paperId)
        k == FindIndex(existing, LAMBDA p : toLowerCase(p.name) = toLowerCase(name))
    IN IF k > 0 THEN [st EXCEPT !.cur = existing[k].id]
       ELSE addProvider(st, paperId, name)

NoPath == <<>>

addCourse(st, providerId, name) ==
    LET validProviderIds == { p.id : p \in st.providers }
        existingCourses == getCourses(st.courses, providerId)
        course == [id |-> st.nextId, name |-> trim(name), providerId |-> providerId,
                   orderIndex |-> Len(existingCourses), folderPath |-> NoPath]
    IN IF ~validateCourse(course, validProviderIds)
       THEN [st EXCEPT !.threw = "row"]
       ELSE [st EXCEPT !.courses = DBput(@, course),
                       !.nextId = @ + 1, !.cur = course.id]

ensureCourse(st, providerId, name, folderPath) ==
    LET existing == getCourses(st.courses, providerId)
        k == FindIndex(existing, LAMBDA c : toLowerCase(c.name) = toLowerCase(name))
        s1 == IF k > 0 THEN [st EXCEPT !.cur = existing[k].id]
              ELSE addCourse(st, providerId, name)
        course == CHOOSE c \in s1.courses : c.id = s1.cur
    IN IF s1.threw # "no" THEN s1
       ELSE IF folderPath # NoPath
            THEN [s1 EXCEPT !.courses = DBput(@, [course EXCEPT !.folderPath = folderPath])]
            ELSE s1

addLecture(st, courseId, lectureData) ==
    LET validCourseIds == { c.id : c \in st.courses }
        lecture == [id |-> st.nextId, title |-> lectureData.title, courseId |-> courseId,
                    type |-> lectureData.type, fileName |-> lectureData.fileName,
                    orderIndex |-> lectureData.orderIndex, completed |-> FALSE,
                    lastPosition |-> 0, lastOpenedAt |-> NeverOpened]
    IN IF ~validateLecture(lecture, validCourseIds)
       THEN [st EXCEPT !.threw = "row"]
       ELSE [st EXCEPT !.lectures = DBput(@, lecture),
                       !.nextId = @ + 1, !.cur = lecture.id]

\* ensureLecture sets st.cur to the lecture's id and st.res to "created",
\* "updated" or "same".  The variant below differs in the update branch only:
\* it rewrites the row as a fresh one, completed flag cleared.
ensureLecture_resetsCompleted(st, courseId, lectureFile, orderIndex) ==
    LET existing == getLectures(st.lectures, courseId)
        k == FindIndex(existing, LAMBDA l : l.fileName = lectureFile.name)
    IN IF k = 0
       THEN [addLecture(st, courseId,
                        [title |-> TitleOf[lectureFile.name],
                         fileName |-> lectureFile.name, type |-> lectureFile.type,
                         orderIndex |-> orderIndex])
             EXCEPT !.res = "created"]
       ELSE IF existing[k].orderIndex # orderIndex
            THEN [st EXCEPT !.lectures = DBput(@, [existing[k] EXCEPT !.orderIndex = orderIndex,
                                                                      !.completed = FALSE]),
                            !.cur = existing[k].id, !.res = "updated"]
            ELSE [st EXCEPT !.cur = existing[k].id, !.res = "same"]

ensureLecture(st, courseId, lectureFile, orderIndex) ==
    LET existing == getLectures(st.lectures, courseId)
        k == FindIndex(existing, LAMBDA l : l.fileName = lectureFile.name)
    IN IF k = 0
       THEN [addLecture(st, courseId,
                        [title |-> TitleOf[lectureFile.name],
                         fileName |-> lectureFile.name, type |-> lectureFile.type,
                         orderIndex |-> orderIndex])
             EXCEPT !.res = "created"]
       ELSE IF existing[k].orderIndex # orderIndex
            THEN [st EXCEPT !.lectures = DBput(@, [existing[k] EXCEPT !.orderIndex = orderIndex]),
                            !.cur = existing[k].id, !.res = "updated"]
            ELSE [st EXCEPT !.cur = existing[k].id, !.res = "same"]

JoinPath(a, b, c) == a \o <<"/">> \o b \o <<"/">> \o c

\* for (let i = 0; i < lectures.length; i++): lecture i is lecs[i + 1]
RECURSIVE ProcessLectures(_, _, _, _)
ProcessLectures(st, courseId, lecs, i) ==
    IF st.threw # "no" \/ i >= Len(lecs) THEN st
    ELSE LET s1 == ensureLecture(st, courseId, lecs[i + 1], i)
         IN IF s1.threw # "no" THEN s1
            ELSE ProcessLectures(
                    [s1 EXCEPT !.validL = @ \cup {s1.cur},
                               !.added = IF s1.res = "created" THEN @ + 1 ELSE @,
                               !.updated = IF s1.res = "updated" THEN @ + 1 ELSE @],
                    courseId, lecs, i + 1)

RECURSIVE ProcessCourses(_, _, _, _, _)
ProcessCourses(st, paperFolderName, providerName, providerId, crs) ==
    IF st.threw # "no" \/ crs = <<>> THEN st
    ELSE LET folderPath == JoinPath(paperFolderName, providerName, Head(crs).name)
             s1 == ensureCourse(st, providerId, Head(crs).name, folderPath)
         IN IF s1.threw # "no" THEN s1
            ELSE ProcessCourses(
                    ProcessLectures([s1 EXCEPT !.validC = @ \cup {s1.cur}],
                                    s1.cur, Head(crs).lectures, 0),
                    paperFolderName, providerName, providerId, Tail(crs))

RECURSIVE ProcessProviders(_, _, _, _)
ProcessProviders(st, paperFolderName, paperId, provs) ==
    IF st.threw # "no" \/ provs = <<>> THEN st
    ELSE LET s1 == ensureProvider(st, paperId, Head(provs).name)
         IN IF s1.threw # "no" THEN s1
            ELSE ProcessProviders(
                    ProcessCourses([s1 EXCEPT !.validP = @ \cup {s1.cur}],
                                   paperFolderName, Head(provs).name, s1.cur,
                                   Head(provs).courses),
                    paperFolderName, paperId, Tail(provs))

RECURSIVE ProcessPapers(_, _)
\* Variant of ProcessPapers that stops at the first folder matching no paper.
ProcessPapers_stopsAtUnknown(st, structure) ==
    IF st.threw # "no" \/ structure = <<>> THEN st
    ELSE LET paperId == PaperOf[Head(structure).name]
         IN IF paperId = NoPaper
            THEN st
            ELSE ProcessPapers(
                    ProcessProviders(st, Head(structure).name, paperId,
                                     Head(structure).providers),
                    Tail(structure))

ProcessPapers(st, structure) ==
    IF st.threw # "no" \/ structure = <<>> THEN st
    ELSE LET paperId == PaperOf[Head(structure).name]
         IN IF paperId = NoPaper
            THEN ProcessPapers(st, Tail(structure))
            ELSE ProcessPapers(
                    ProcessProviders(st, Head(structure).name, paperId,
                                     Head(structure).providers),
                    Tail(structure))

(***************************************************************************)
(* Garbage collection                                                      *)
(***************************************************************************)
isScannedPaper(p, structure) ==
    /\ p.paperId \in paperIds
    /\ \E i \in 1..Len(structure) :
           PaperOf[structure[i].name] = p.paperId

\* Variant of GcProviders that does not look at the provider's category.
GcProviders_unscoped(st, structure) ==
    LET gone == { p \in st.providers : p.id \notin st.validP }
    IN [st EXCEPT !.providers = @ \ gone, !.deleted = @ + Cardinality(gone)]

GcProviders(st, structure) ==
    LET gone == { p \in st.providers : isScannedPaper(p, structure) /\ p.id \notin st.validP }
    IN [st EXCEPT !.providers = @ \ gone, !.deleted = @ + Cardinality(gone)]

\* Variant of GcCourses with the first loop only: courses are deleted only
\* beneath providers seen in this scan.
GcCourses_validParentsOnly(st) ==
    LET gone == { c \in st.courses : c.providerId \in st.validP /\ c.id \notin st.validC }
    IN [st EXCEPT !.courses = @ \ gone, !.deleted = @ + Cardinality(gone)]

\* Both course loops run over the same snapshot allCourses; the second one
\* deletes (and counts) every course outside validCourseIds, also those the
\* first loop has already deleted.
GcCourses(st) ==
    LET allCourses == st.courses
        first == { c \in allCourses : c.providerId \in st.validP /\ c.id \notin st.validC }
        second == { c \in allCourses : c.id \notin st.validC }
    IN [st EXCEPT !.courses = (@ \ first) \ second,
                  !.deleted = @ + Cardinality(first) + Cardinality(second)]

\* Variant of GcLectures that deletes lectures only beneath courses seen in
\* this scan.
GcLectures_validParentsOnly(st) ==
    LET gone == { l \in st.lectures : l.courseId \in st.validC /\ l.id \notin st.validL }
    IN [st EXCEPT !.lectures = @ \ gone, !.deleted = @ + Cardinality(gone)]

GcLectures(st) ==
    LET gone == { l \in st.lectures : l.id \notin st.validL }
    IN [st EXCEPT !.lectures = @ \ gone, !.deleted = @ + Cardinality(gone)]

PassStart(provs, crs, lecs, nid) ==
    [providers |-> provs, courses |-> crs, lectures |-> lecs,
     nextId |-> nid, validP |-> {}, validC |-> {}, validL |-> {},
     added |-> 0, updated |-> 0, deleted |-> 0, threw |-> "no",
     cur |-> 0, res |-> "same"]

\* The pass over tree dk from the given store contents.
syncPass(dk, unread, provs, crs, lecs, nid) ==
    IF scanThrows(dk, unread)
    THEN [PassStart(provs, crs, lecs, nid) EXCEPT !.threw = "scan"]
    ELSE LET structure == scanMasterFolder(dk)
             s1 == ProcessPapers(PassStart(provs, crs, lecs, nid), structure)
         IN IF s1.threw # "no" THEN s1
            ELSE GcLectures(GcCourses(GcProviders(s1, structure)))

\* No single removal of a file separates the tree from the last completed pass.
NoRemoval == [dir |-> <<>>, name |-> <<>>]

NoResult == [status |-> "none", added |-> 0, updated |-> 0, deleted |-> 0]

syncToDatabase ==
    \E r \in { syncPass(disk, unreadable, providers, courses, lectures, nextId) } :
       /\ r.nextId <= MaxId + 1
       /\ providers' = r.providers
       /\ courses' = r.courses
       /\ lectures' = r.lectures
       /\ nextId' = r.nextId
       /\ syncResult' = IF r.threw # "no" THEN [NoResult EXCEPT !.status = r.threw]
                        ELSE [status |-> "ok", added |-> r.added,
                              updated |-> r.updated, deleted |-> r.deleted]
       /\ cleanPasses' = IF r.threw # "no" THEN 0
                         ELSE IF cleanPasses < 2 THEN cleanPasses + 1 ELSE 2
       /\ lastOp' = "sync"
       /\ dirty' = IF r.threw # "no" THEN dirty ELSE FALSE
       /\ removed' = IF r.threw # "no" THEN removed ELSE NoRemoval
       \* 'app:sync-start' is dispatched before the scan, 'app:sync-end' by the
       \* last statements of the function.
       /\ isSyncing' = (r.threw # "no")
       /\ UNCHANGED << disk, unreadable, diskOps, toggles, reorders >>
       /\ UNCHANGED studyVars
       /\ UNCHANGED probeVars

(***************************************************************************)
(* The user's changes to the tree, outside the program                     *)
(***************************************************************************)
\* The changes made outside the reconciler so far: to the tree and, in the
\* lecture list, to completion marks and to the order.
Edits == diskOps + toggles + reorders

DiskChange ==
    /\ Edits < MaxDiskOps
    /\ diskOps' = diskOps + 1
    /\ cleanPasses' = 0
    /\ lastOp' = "disk"
    /\ dirty' = TRUE
    /\ UNCHANGED << providers, courses, lectures, nextId, syncResult, toggles, reorders,
                    isSyncing >>
    /\ UNCHANGED studyVars
    /\ UNCHANGED probeVars

AddCourseFolder(d, fs) ==
    /\ ~disk[d].present
    /\ fs \subseteq FilesIn[d]
    /\ disk' = [disk EXCEPT ![d] = [present |-> TRUE, files |-> fs]]
    /\ UNCHANGED unreadable
    /\ removed' = NoRemoval
    /\ DiskChange

RemoveCourseFolder(d) ==
    /\ disk[d].present
    /\ disk' = [disk EXCEPT ![d] = [present |-> FALSE, files |-> {}]]
    /\ unreadable' = unreadable \ {d}
    /\ removed' = NoRemoval
    /\ DiskChange

AddFile(d, f) ==
    /\ disk[d].present
    /\ f \in FilesIn[d] \ disk[d].files
    /\ disk' = [disk EXCEPT ![d].files = @ \cup {f}]
    /\ UNCHANGED unreadable
    /\ removed' = NoRemoval
    /\ DiskChange

RemoveFile(d, f) ==
    /\ disk[d].present
    /\ f \in disk[d].files
    /\ disk' = [disk EXCEPT ![d].files = @ \ {f}]
    /\ UNCHANGED unreadable
    /\ removed' = IF dirty THEN NoRemoval ELSE [dir |-> d, name |-> f]
    /\ DiskChange

RenameFile(d, f, g) ==
    /\ disk[d].present
    /\ f \in disk[d].files
    /\ g \in FilesIn[d] \ disk[d].files
    /\ disk' = [disk EXCEPT ![d].files = (@ \ {f}) \cup {g}]
    /\ UNCHANGED unreadable
    /\ removed' = NoRemoval
    /\ DiskChange

\* Permission to a branch is revoked, or its enumeration starts to fail.
RevokeAccess(d) ==
    /\ disk[d].present
    /\ d \notin unreadable
    /\ unreadable' = unreadable \cup {d}
    /\ UNCHANGED disk
    /\ removed' = NoRemoval
    /\ DiskChange

(***************************************************************************)
(* LectureList.toggleComplete                                              *)
(***************************************************************************)
LectureList_toggleComplete(id) ==
    /\ toggles < MaxToggles
    /\ Edits < MaxDiskOps
    /\ \E l \in lectures :
          /\ l.id = id
          /\ lectures' = DBput(lectures, [l EXCEPT !.completed = ~l.completed])
    /\ toggles' = toggles + 1
    /\ cleanPasses' = 0
    /\ lastOp' = "toggle"
    /\ UNCHANGED << disk, unreadable, diskOps, providers, courses, nextId, syncResult,
                    reorders, dirty, removed, isSyncing >>
    /\ UNCHANGED probeVars
    /\ UNCHANGED studyVars

(***************************************************************************)
(* LectureList.reorderLectures: the row at fromIndex of the displayed list *)
(* is moved to toIndex and every row whose orderIndex differs from its new *)
(* position is rewritten.                                                  *)
(***************************************************************************)
\* lectures.splice(fromIndex, 1); lectures.splice(toIndex, 0, movedLecture)
Splice(seq, fromIndex, toIndex) ==
    LET movedLecture == seq[fromIndex + 1]
        rest == SubSeq(seq, 1, fromIndex) \o SubSeq(seq, fromIndex + 2, Len(seq))
    IN SubSeq(rest, 1, toIndex) \o <<movedLecture>> \o SubSeq(rest, toIndex + 1, Len(rest))

reorderLectures(store, courseId, fromIndex, toIndex) ==
    LET moved == Splice(getLectures(store, courseId), fromIndex, toIndex)
    IN { l \in store : l.courseId # courseId }
          \cup { [moved[i] EXCEPT !.orderIndex = i - 1] : i \in 1..Len(moved) }

LectureList_reorderLectures(courseId, fromIndex, toIndex) ==
    /\ reorders < MaxReorders
    /\ Edits < MaxDiskOps
    /\ \E c \in courses : c.id = courseId
    /\ fromIndex # toIndex
    /\ fromIndex < Len(getLectures(lectures, courseId))
    /\ toIndex < Len(getLectures(lectures, courseId))
    /\ lectures' = reorderLectures(lectures, courseId, fromIndex, toIndex)
    /\ reorders' = reorders + 1
    /\ cleanPasses' = 0
    /\ lastOp' = "reorder"
    /\ UNCHANGED << disk, unreadable, diskOps, providers, courses, nextId, syncResult,
                    toggles, dirty, removed, isSyncing >>
    /\ UNCHANGED probeVars
    /\ UNCHANGED studyVars

(***************************************************************************)
(* StudyMode: values of its fields when nothing is open                    *)
(***************************************************************************)
Pending == <<"?">>

\* No call of matchPaperFolder is examined.
NoProbe ==
    /\ matchIn = [folderName |-> <<>>, papers |-> <<>>]
    /\ matchOut = Pending

NoLecture ==
    [id |-> 0, title |-> <<>>, courseId |-> 0, type |-> NoType, fileName |-> <<>>,
     orderIndex |-> 0, completed |-> FALSE, lastPosition |-> 0,
     lastOpenedAt |-> NeverOpened]

NoCourse ==
    [id |-> 0, name |-> <<>>, providerId |-> 0, orderIndex |-> 0, folderPath |-> NoPath]

\* by: the session whose resolution produced the binding
NoFile == [name |-> <<>>, type |-> NoType, dir |-> <<>>, by |-> 0]

IdleSession ==
    [kind |-> "none", pc |-> "idle", lectureId |-> 0, lecture |-> NoLecture,
     course |-> NoCourse, file |-> NoFile, cleaned |-> FALSE, saveFailed |-> FALSE]

StudyInit ==
    /\ activeSessionId = 0
    /\ currentLecture = NoLecture
    /\ currentFile = NoFile
    /\ currentObjectURL = 0
    /\ pdfPollInterval = 0
    /\ player = 0
    /\ playerTime = 0
    /\ mode = "browse"
    /\ sessions = [s \in 1..MaxSessions |-> IdleSession]
    /\ dbPending = <<>>
    /\ timers = {}
    /\ liveURLs = {}
    /\ dom = {}
    /\ effects = {}

\* A connected, empty master folder and an empty catalog.
\* The master folder that is connected: empty, or holding one course with a
\* video and a document.
InitialTrees ==
    { [d \in CourseDirs |-> [present |-> FALSE, files |-> {}]],
      [d \in CourseDirs |->
          IF d = DirMain THEN [present |-> TRUE, files |-> {File_a, File_b}]
          ELSE [present |-> FALSE, files |-> {}]] }

InitSync ==
    /\ disk \in InitialTrees
    /\ unreadable = {}
    /\ diskOps = 0
    /\ providers = {}
    /\ courses = {}
    /\ lectures = {}
    /\ nextId = 1
    /\ syncResult = NoResult
    /\ cleanPasses = 0
    /\ toggles = 0
    /\ reorders = 0
    /\ dirty = (PresentDirs(disk) # {})
    /\ removed = NoRemoval
    /\ isSyncing = FALSE
    /\ NoProbe
    /\ lastOp = "init"
    /\ StudyInit

NextSync ==
    \/ syncToDatabase
    \/ \E d \in CourseDirs, fs \in SUBSET FileNames : AddCourseFolder(d, fs)
    \/ \E d \in CourseDirs : RemoveCourseFolder(d)
    \/ \E d \in CourseDirs, f \in FileNames : AddFile(d, f)
    \/ \E d \in CourseDirs, f \in FileNames : RemoveFile(d, f)
    \/ \E d \in CourseDirs, f \in FileNames, g \in FileNames : RenameFile(d, f, g)
    \/ \E d \in CourseDirs : RevokeAccess(d)
    \/ \E id \in 1..MaxId : LectureList_toggleComplete(id)
    \/ \E c \in 1..MaxId, i \in 0..(Cardinality(FileNames) - 1),
          j \in 0..(Cardinality(FileNames) - 1) : LectureList_reorderLectures(c, i, j)

SpecSync == InitSync /\ [][NextSync]_vars

(***************************************************************************)
(* Properties of the reconciliation pass                                   *)
(***************************************************************************)
ZeroCounts ==
    /\ syncResult.added = 0
    /\ syncResult.updated = 0
    /\ syncResult.deleted = 0

\* C1: when two passes have completed in succession, with no change of the
\* tree and no other store write in between, the second pass returns
\* {added: 0, updated: 0, deleted: 0}.
C1_Idempotence ==
    (lastOp = "sync" /\ cleanPasses = 2) => ZeroCounts

\* C6: a pass never sets or clears completed: every lecture row that exists
\* before a pass and after it has the same completed flag.
C6_CompletedPreserved ==
    [][ lastOp' = "sync" =>
          \A l \in lectures : \A m \in lectures' :
              m.id = l.id => m.completed = l.completed ]_vars

\* A pass has just updated the orderIndex of a lecture the user had marked
\* complete.
C6_Witness ==
    /\ lastOp = "sync"
    /\ syncResult.status = "ok"
    /\ syncResult.updated >= 1
    /\ \E l \in lectures : l.completed /\ l.orderIndex = 1

\* Files of the matched folders that the pass has to mirror as lectures.
MirroredFiles ==
    { f \in FileNames :
        \E d \in PresentDirs(disk) :
            PaperOf[d[1]] # NoPaper /\ f \in disk[d].files /\ TypeOf[f] # NoType }

\* C7: a row that fails the integrity check is skipped and nothing else: the
\* pass does not end with the row's exception, and every other file of the
\* scanned tree has its lecture row after the pass.
C7_RowIsolation ==
    lastOp = "sync" =>
        /\ syncResult.status # "row"
        /\ (syncResult.status = "ok" =>
               \A f \in MirroredFiles :
                   TitleOf[f] # <<>> => \E l \in lectures : l.fileName = f)

\* C8: a branch whose enumeration fails does not abort the scan: a pass over a
\* tree with an unreadable branch does not end with the scan's exception.
C8_BranchIsolation ==
    lastOp = "sync" => syncResult.status # "scan"

\* Category c has no matching top-level folder in the tree.
CategoryAbsent(c) ==
    LET structure == scanMasterFolder(disk)
    IN \A i \in 1..Len(structure) : PaperOf[structure[i].name] # c

BeneathAbsentCategory(c) ==
    \E p \in providers : p.id = c.providerId /\ CategoryAbsent(p.paperId)

\* C13: a pass in which no top-level folder matched category C deletes no
\* course and no lecture that lies beneath a provider of category C.
C13_CleanupScopedToPresent ==
    [][ lastOp' = "sync" =>
          /\ \A c \in courses : BeneathAbsentCategory(c) => c \in courses'
          /\ \A l \in lectures :
                (\E c \in courses : c.id = l.courseId /\ BeneathAbsentCategory(c))
                   => \E m \in lectures' : m.id = l.id ]_vars

\* C14: whenever a pass deletes a provider, the same pass deletes every course
\* whose providerId is that provider and every lecture whose courseId is one of
\* those courses.
C14_CascadeOnProviderRemoval ==
    [][ lastOp' = "sync" =>
          \A p \in providers :
             (\A q \in providers' : q.id # p.id) =>
                \A c \in courses :
                   c.providerId = p.id =>
                      /\ \A c2 \in courses' : c2.id # c.id
                      /\ \A l \in lectures :
                            l.courseId = c.id => \A m \in lectures' : m.id # l.id ]_vars

\* A completed pass over a tree that holds provider W of a category, and no
\* longer provider V, has deleted provider V, its course and a lecture.
C14_Witness ==
    /\ lastOp = "sync"
    /\ syncResult.status = "ok"
    /\ syncResult.deleted >= 3
    /\ \E p \in providers : p.name = ProvW
    /\ \A p \in providers : p.name # ProvV
    /\ courses # {}

\* C15: after a completed pass every provider's paperId is an existing paper,
\* every course's providerId is an existing provider, every lecture's courseId
\* is an existing course and every lecture's type is 'video' or 'pdf'.
C15_ReferentialIntegrity ==
    (lastOp = "sync" /\ syncResult.status = "ok") =>
       /\ \A p \in providers : p.paperId \in paperIds
       /\ \A c \in courses : \E p \in providers : p.id = c.providerId
       /\ \A l \in lectures :
             /\ \E c \in courses : c.id = l.courseId
             /\ l.type \in {"video", "pdf"}

\* A completed pass has deleted rows and has left lectures in the catalog.
C15_Witness ==
    /\ lastOp = "sync"
    /\ syncResult.status = "ok"
    /\ syncResult.deleted >= 2
    /\ lectures # {}

\* The courses that folder d is reconciled into.
CoursesOf(d) ==
    { c \in courses :
        \E p \in providers :
           /\ p.id = c.providerId
           /\ p.paperId = PaperOf[d[1]]
           /\ toLowerCase(p.name) = toLowerCase(d[2])
           /\ toLowerCase(c.name) = toLowerCase(d[3]) }

\* 0-based position of file f in the sorted listing of folder d.
PositionIn(d, f) ==
    LET files == scanCourseFolder(disk, d)
    IN (CHOOSE i \in 1..Len(files) : files[i].name = f) - 1

\* C18: when a classified file has been removed from a course folder and a
\* pass then runs to completion, the lecture whose fileName is that file is
\* deleted, every other lecture of the course keeps its id and its user-owned
\* fields, and each remaining lecture of that folder has the index of its file
\* in the new sorted listing as orderIndex.
C18_DeletionPropagation ==
    [][ (removed # NoRemoval /\ lastOp' = "sync" /\ syncResult'.status = "ok") =>
          \A c \in CoursesOf(removed.dir) : \A l \in lectures :
             l.courseId = c.id =>
                IF l.fileName = removed.name
                THEN \A m \in lectures' : m.id # l.id
                ELSE \E m \in lectures' :
                        /\ m.id = l.id
                        /\ m.completed = l.completed
                        /\ m.lastPosition = l.lastPosition
                        /\ m.lastOpenedAt = l.lastOpenedAt
                        /\ l.fileName \in disk[removed.dir].files =>
                              m.orderIndex = PositionIn(removed.dir, l.fileName) ]_vars

\* The tree holds exactly one course folder, d, under a matched category
\* folder, and its enumeration does not fail.
OnlyBranch(d) ==
    /\ PresentDirs(disk) = {d}
    /\ PaperOf[d[1]] # NoPaper
    /\ d \notin unreadable

\* C19: a pass over an empty catalog and a tree with one matched category
\* folder, one provider folder and one course folder holding n classified
\* files creates exactly one provider, one course and n lectures; the lecture
\* of the i-th file in sorted order has orderIndex i, the type given by its
\* extension, completed = false and lastPosition = 0.
C19_RoundTrip ==
    [][ \A d \in CourseDirs :
          ( /\ providers = {} /\ courses = {} /\ lectures = {}
            /\ OnlyBranch(d)
            /\ lastOp' = "sync" ) =>
          LET files == scanCourseFolder(disk, d)
          IN /\ Cardinality(providers') = 1
             /\ Cardinality(courses') = 1
             /\ Cardinality(lectures') = Len(files)
             /\ \A i \in 1..Len(files) :
                   \E l \in lectures' :
                      /\ l.fileName = files[i].name
                      /\ l.orderIndex = i - 1
                      /\ l.type = classifyFile(files[i].name)
                      /\ ~l.completed
                      /\ l.lastPosition = 0 ]_vars

\* The tree without the folders beneath top-level folder top.
Without(top) ==
    [d \in CourseDirs |->
        IF d[1] = top THEN [present |-> FALSE, files |-> {}] ELSE disk[d]]

Gone(before, after) == { r.id : r \in before } \ { r.id : r \in after }

\* C30: the deleted count returned by a completed pass is the number of
\* provider, course and lecture rows that the pass removed; no row is counted
\* more than once.
C30_DeletedCountExact ==
    [][ (lastOp' = "sync" /\ syncResult'.status = "ok") =>
          syncResult'.deleted =
             Cardinality(Gone(providers, providers'))
               + Cardinality(Gone(courses, courses'))
               + Cardinality(Gone(lectures, lectures')) ]_vars

\* C29: every call of syncToDatabase that dispatched 'app:sync-start' has
\* dispatched 'app:sync-end' when it settles, whether it returned or threw: once
\* a call has settled the Sidebar is not in the syncing state.
C29_SyncEventsPaired == ~isSyncing

\* The orderIndex values of the lectures of course c.
RanksOf(c) == { l.orderIndex : l \in { m \in lectures : m.courseId = c } }

\* C32: after every completed pass the orderIndex values of the lectures of a
\* course are pairwise distinct and are exactly 0..n-1 for its n lectures.
C32_DenseRanks ==
    (lastOp = "sync" /\ syncResult.status = "ok") =>
       \A c \in courses :
          LET n == Cardinality({ m \in lectures : m.courseId = c.id })
          IN /\ RanksOf(c.id) = 0..(n - 1)
             /\ Cardinality(RanksOf(c.id)) = n

\* C11: a completed pass that follows a manual reordering, over a tree that
\* has not changed since the last completed pass, leaves every lecture's
\* orderIndex as the reordering set it.
C11_ManualOrderKept ==
    [][ (lastOp = "reorder" /\ ~dirty /\ lastOp' = "sync" /\ syncResult'.status = "ok") =>
          \A l \in lectures : \A m \in lectures' :
              m.id = l.id => m.orderIndex = l.orderIndex ]_vars

(***************************************************************************)
(* StudyMode.  A workflow (enter or exit) runs from one await to the next  *)
(* in one step.  St is the record of everything a step may change; the     *)
(* operators below map St to St, and Commit installs the result.           *)
(***************************************************************************)
St ==
    [activeSessionId |-> activeSessionId, currentLecture |-> currentLecture,
     currentFile |-> currentFile, currentObjectURL |-> currentObjectURL,
     pdfPollInterval |-> pdfPollInterval, player |-> player,
     playerTime |-> playerTime, mode |-> mode, sessions |-> sessions,
     dbPending |-> dbPending, timers |-> timers, liveURLs |-> liveURLs,
     dom |-> dom, effects |-> effects, lectures |-> lectures, disk |-> disk]

Commit(S, op) ==
    /\ activeSessionId' = S.activeSessionId
    /\ currentLecture' = S.currentLecture
    /\ currentFile' = S.currentFile
    /\ currentObjectURL' = S.currentObjectURL
    /\ pdfPollInterval' = S.pdfPollInterval
    /\ player' = S.player
    /\ playerTime' = S.playerTime
    /\ mode' = S.mode
    /\ sessions' = S.sessions
    /\ dbPending' = S.dbPending
    /\ timers' = S.timers
    /\ liveURLs' = S.liveURLs
    /\ dom' = S.dom
    /\ effects' = S.effects
    /\ lectures' = S.lectures
    /\ disk' = S.disk
    /\ lastOp' = op
    /\ cleanPasses' = 0
    /\ UNCHANGED << unreadable, diskOps, providers, courses, nextId, syncResult, toggles,
                    reorders, dirty, removed, isSyncing >>
    /\ UNCHANGED probeVars

\* DB.get: the row, or none when the key is missing
DBget(store, id, none) ==
    IF \E r \in store : r.id = id THEN CHOOSE r \in store : r.id = id ELSE none

\* Requests on one object store complete in the order of issue.
StoreOf(pc) == IF pc = "getCourse" THEN "courses" ELSE "lectures"

CanResume(s) ==
    \E i \in 1..Len(dbPending) :
        /\ dbPending[i] = s
        /\ \A j \in 1..(i - 1) :
               StoreOf(sessions[dbPending[j]].pc) # StoreOf(sessions[s].pc)

Issue(S, s, pc) ==
    [S EXCEPT !.sessions[s].pc = pc, !.dbPending = Append(@, s)]

Resumed(S, s) ==
    [S EXCEPT !.dbPending = SelectSeq(@, LAMBDA t : t # s)]

\* The workflow returns (pc "done") or rejects (pc "failed"); its locals die.
Finish(S, s, pc) ==
    [S EXCEPT !.sessions[s] =
        [IdleSession EXCEPT !.kind = S.sessions[s].kind, !.pc = pc,
                            !.lectureId = S.sessions[s].lectureId,
                            !.cleaned = S.sessions[s].cleaned,
                            !.saveFailed = S.sessions[s].saveFailed]]

Log(S, s, at, what, row) ==
    [S EXCEPT !.effects = @ \cup
        { [sid |-> s, at |-> at, what |-> what, row |-> row,
           stale |-> S.activeSessionId # s] }]

LogStale(S, s, at, what, row) ==
    IF S.activeSessionId # s THEN Log(S, s, at, what, row) ELSE S

(***************************************************************************)
(* StudyMode.cleanup.  fault names the step that throws, "none" if none.   *)
(***************************************************************************)
CleanupFaults == {"destroy", "revoke", "media", "interval"}

FaultPossible(S, fault) ==
    CASE fault = "none" -> TRUE
      [] fault = "destroy" -> S.player # 0
      [] fault = "revoke" -> S.currentObjectURL # 0
      [] fault = "media" -> \E v \in S.dom : v.view = "video"
      [] fault = "interval" -> S.pdfPollInterval # 0

\* Only player.destroy() sits in a try/catch.
cleanupThrows(fault) == fault \in {"revoke", "media", "interval"}

cleanup(S, fault) ==
    LET s1 == IF S.player # 0
              THEN [S EXCEPT !.player = 0, !.playerTime = 0]
              ELSE S
        s2 == IF s1.currentObjectURL # 0
              THEN [s1 EXCEPT !.liveURLs = @ \ {s1.currentObjectURL},
                              !.currentObjectURL = 0]
              ELSE s1
        s4 == [s2 EXCEPT !.currentLecture = NoLecture, !.currentFile = NoFile]
        s5 == IF s4.pdfPollInterval # 0
              THEN [s4 EXCEPT !.timers = { t \in @ : t.id # s4.pdfPollInterval },
                              !.pdfPollInterval = 0]
              ELSE s4
    IN CASE fault = "none" -> s5
         [] fault = "destroy" -> s5
         [] fault = "revoke" -> s1
         [] fault = "media" -> s2
         [] fault = "interval" -> s4

(***************************************************************************)
(* StudyMode.savePosition, up to its DB.put                                *)
(***************************************************************************)
savePosition(S) ==
    IF S.currentLecture.type = "video" /\ S.player # 0
    THEN [S EXCEPT !.currentLecture.lastPosition = S.playerTime]
    ELSE S

(***************************************************************************)
(* StudyMode.render, renderVideoPlayer and renderPdfViewer up to getFile   *)
(***************************************************************************)
render(S, s) ==
    LET S1 == [S EXCEPT !.dom = {}]
    IN IF S1.currentLecture = NoLecture
       THEN Finish(S1, s, "failed")
       ELSE IF S1.currentFile = NoFile
            THEN Finish([S1 EXCEPT !.dom = { [sid |-> s, view |-> "notfound"] }], s, "done")
            ELSE IF S1.currentLecture.type = "video"
                 THEN [S1 EXCEPT !.sessions[s].pc = "getFileVideo",
                                 !.sessions[s].file = S1.currentFile]
                 ELSE [S1 EXCEPT !.sessions[s].pc = "getFilePdf",
                                 !.sessions[s].file = S1.currentFile]

\* enter() after "await this.refreshFileFromDisk()"
afterRefresh(S, s) ==
    IF S.activeSessionId # s THEN Finish(S, s, "done") ELSE render(S, s)

(***************************************************************************)
(* StudyMode.enter                                                         *)
(***************************************************************************)
\* this.cleanup(); const lecture = await AppState.getLecture(lectureId)
afterSave(S, s, fault) ==
    LET S1 == [cleanup(S, fault) EXCEPT !.sessions[s].cleaned = TRUE]
    IN IF cleanupThrows(fault) THEN Finish(S1, s, "failed")
       ELSE Issue([S1 EXCEPT !.sessions[s].lecture =
                       DBget(S1.lectures, S1.sessions[s].lectureId, NoLecture)],
                  s, "getLecture")

enter(S, lectureId, putOk, fault) ==
    LET s == S.activeSessionId + 1
        S0 == [S EXCEPT !.activeSessionId = s,
                        !.sessions[s] = [IdleSession EXCEPT !.kind = "enter",
                                                            !.lectureId = lectureId]]
    IN IF S0.currentLecture # NoLecture
       THEN LET S1 == savePosition(S0)
            IN IF putOk
               THEN Issue([S1 EXCEPT !.lectures = DBput(@, S1.currentLecture)], s, "savePos")
               ELSE Finish([S1 EXCEPT !.sessions[s].saveFailed = TRUE], s, "failed")
       ELSE afterSave(S0, s, fault)

resumeSavePos(S, s, fault) ==
    afterSave(LogStale(Resumed(S, s), s, "savePos", "cleanup", 0), s, fault)

\* Variant of resumeGetLecture without the check of the session id.
resumeGetLecture_unchecked(S, s) ==
    LET S0 == Resumed(S, s)
        lecture == S0.sessions[s].lecture
        opened == [lecture EXCEPT !.lastOpenedAt = s]
    IN IF lecture = NoLecture THEN Finish(S0, s, "done")
       ELSE Issue([S0 EXCEPT !.currentLecture = opened, !.mode = "study",
                             !.lectures = DBput(@, opened)],
                  s, "putOpened")

resumeGetLecture(S, s) ==
    LET S0 == Resumed(S, s)
        lecture == S0.sessions[s].lecture
        opened == [lecture EXCEPT !.lastOpenedAt = s]
    IN IF S0.activeSessionId # s THEN Finish(S0, s, "done")
       ELSE IF lecture = NoLecture THEN Finish(S0, s, "done")
       ELSE Issue([S0 EXCEPT !.currentLecture = opened, !.mode = "study",
                             !.lectures = DBput(@, opened)],
                  s, "putOpened")

(***************************************************************************)
(* StudyMode.refreshFileFromDisk                                           *)
(***************************************************************************)
\* path.split('/').filter(p => p.trim())
RECURSIVE SplitPath(_, _)
SplitPath(path, part) ==
    IF path = <<>> THEN (IF trim(part) = <<>> THEN <<>> ELSE <<part>>)
    ELSE IF Head(path) = "/"
         THEN (IF trim(part) = <<>> THEN <<>> ELSE <<part>>) \o SplitPath(Tail(path), <<>>)
         ELSE SplitPath(Tail(path), Append(part, Head(path)))

\* FileSystem.getOrCreateFolder: every missing part of the path is created.
getOrCreateFolder(S, path) ==
    LET d == SplitPath(path, <<>>)
    IN IF S.disk[d].present THEN S
       ELSE [S EXCEPT !.disk[d] = [present |-> TRUE, files |-> {}]]

resumePutOpened(S, s) ==
    LET S1 == LogStale([Resumed(S, s) EXCEPT !.currentFile = NoFile],
                       s, "putOpened", "currentFile", 0)
    IN IF S1.currentLecture = NoLecture THEN afterRefresh(S1, s)
       ELSE Issue([S1 EXCEPT !.sessions[s].course =
                       DBget(courses, S1.currentLecture.courseId, NoCourse)],
                  s, "getCourse")

resumeGetCourse(S, s) ==
    LET S0 == Resumed(S, s)
        course == S0.sessions[s].course
    IN IF course = NoCourse \/ course.folderPath = NoPath THEN afterRefresh(S0, s)
       ELSE [S0 EXCEPT !.sessions[s].pc = "listing"]

\* Variant of resumeListing whose heal rewrites fileName and keeps the title.
resumeListing_keepsTitle(S, s) ==
    LET d == SplitPath(S.sessions[s].course.folderPath, <<>>)
        S1 == getOrCreateFolder(S, S.sessions[s].course.folderPath)
        files == scanCourseFolder(S1.disk, d)
        orderIndex == S1.currentLecture.orderIndex
        bound == [name |-> files[orderIndex + 1].name, type |-> files[orderIndex + 1].type,
                  dir |-> d, by |-> s]
        S2 == LogStale([S1 EXCEPT !.currentFile = bound], s, "listing", "currentFile", 0)
        healed == [S2.currentLecture EXCEPT !.fileName = bound.name]
    IN IF d \in unreadable \/ S1.currentLecture = NoLecture THEN afterRefresh(S1, s)
       ELSE IF orderIndex >= Len(files) THEN afterRefresh(S1, s)
       ELSE IF S2.currentLecture.fileName = bound.name THEN afterRefresh(S2, s)
       ELSE Issue(Log([S2 EXCEPT !.currentLecture = healed,
                                 !.lectures = DBput(@, healed)],
                      s, "listing", "heal", healed.id),
                  s, "healPut")

resumeListing(S, s) ==
    LET d == SplitPath(S.sessions[s].course.folderPath, <<>>)
        S1 == getOrCreateFolder(S, S.sessions[s].course.folderPath)
        files == scanCourseFolder(S1.disk, d)
        orderIndex == S1.currentLecture.orderIndex
        bound == [name |-> files[orderIndex + 1].name, type |-> files[orderIndex + 1].type,
                  dir |-> d, by |-> s]
        S2 == LogStale([S1 EXCEPT !.currentFile = bound], s, "listing", "currentFile", 0)
        healed == [S2.currentLecture EXCEPT !.fileName = bound.name,
                                            !.title = TitleOf[bound.name]]
    IN IF d \in unreadable \/ S1.currentLecture = NoLecture THEN afterRefresh(S1, s)
       ELSE IF orderIndex >= Len(files) THEN afterRefresh(S1, s)
       ELSE IF S2.currentLecture.fileName = bound.name THEN afterRefresh(S2, s)
       ELSE Issue(Log([S2 EXCEPT !.currentLecture = healed,
                                 !.lectures = DBput(@, healed)],
                      s, "listing", "heal", healed.id),
                  s, "healPut")

resumeHealPut(S, s) == afterRefresh(Resumed(S, s), s)

(***************************************************************************)
(* renderVideoPlayer and renderPdfViewer after "await ...getFile()"        *)
(***************************************************************************)
FileReadable(S, f) ==
    /\ S.disk[f.dir].present
    /\ f.name \in S.disk[f.dir].files
    /\ f.dir \notin unreadable

Attach(S, s, view) == [S EXCEPT !.dom = @ \cup { [sid |-> s, view |-> view] }]

resumeGetFileVideo(S, s) ==
    IF ~FileReadable(S, S.sessions[s].file)
    THEN Finish(LogStale(Attach(S, s, "error"), s, "getFile", "render", 0), s, "done")
    ELSE IF S.activeSessionId # s
    THEN Finish(Log(Attach(S, s, "empty"), s, "getFile", "render", 0), s, "done")
    ELSE Finish(Attach([S EXCEPT !.currentObjectURL = s,
                                 !.liveURLs = @ \cup {s},
                                 !.player = s,
                                 !.playerTime = S.currentLecture.lastPosition],
                       s, "video"),
                s, "done")

resumeGetFilePdf(S, s) ==
    LET S1 == LogStale([S EXCEPT !.currentObjectURL = s, !.liveURLs = @ \cup {s}],
                       s, "getFile", "currentObjectURL", 0)
        initialPage == IF S1.currentLecture.lastPosition = 0 THEN 1
                       ELSE S1.currentLecture.lastPosition
        S2 == [S1 EXCEPT !.timers = @ \cup { [id |-> s, lastSavedPage |-> initialPage,
                                              page |-> initialPage,
                                              bornStale |-> S.activeSessionId # s] },
                         !.pdfPollInterval = s]
    IN IF ~FileReadable(S, S.sessions[s].file)
       THEN Finish(LogStale(Attach(S, s, "error"), s, "getFile", "render", 0), s, "done")
       ELSE IF S1.currentLecture = NoLecture
       THEN Finish(LogStale(Attach(S1, s, "error"), s, "getFile", "render", 0), s, "done")
       ELSE Finish(LogStale(LogStale(Attach(S2, s, "pdf"), s, "getFile", "render", 0),
                            s, "getFile", "pdfPollInterval", 0),
                   s, "done")

(***************************************************************************)
(* StudyMode.exit                                                          *)
(***************************************************************************)
exitFinish(S, s, fault) ==
    LET S1 == [cleanup(S, fault) EXCEPT !.sessions[s].cleaned = TRUE]
    IN IF cleanupThrows(fault) THEN Finish(S1, s, "failed")
       ELSE Finish([S1 EXCEPT !.currentLecture = NoLecture, !.currentFile = NoFile,
                              !.mode = "browse", !.dom = {}],
                   s, "done")

\* Variant of exit that leaves activeSessionId as it is.
exit_keepsSessionId(S, putOk, fault) ==
    LET s == S.activeSessionId
        S0 == [S EXCEPT !.sessions[s] = [IdleSession EXCEPT !.kind = "exit"]]
    IN IF S0.currentLecture # NoLecture
       THEN LET S1 == savePosition(S0)
            IN IF putOk
               THEN Issue([S1 EXCEPT !.lectures = DBput(@, S1.currentLecture)], s, "exitSave")
               ELSE Finish([S1 EXCEPT !.sessions[s].saveFailed = TRUE], s, "failed")
       ELSE exitFinish(S0, s, fault)

exit(S, putOk, fault) ==
    LET s == S.activeSessionId + 1
        S0 == [S EXCEPT !.activeSessionId = s,
                        !.sessions[s] = [IdleSession EXCEPT !.kind = "exit"]]
    IN IF S0.currentLecture # NoLecture
       THEN LET S1 == savePosition(S0)
            IN IF putOk
               THEN Issue([S1 EXCEPT !.lectures = DBput(@, S1.currentLecture)], s, "exitSave")
               ELSE Finish([S1 EXCEPT !.sessions[s].saveFailed = TRUE], s, "failed")
       ELSE exitFinish(S0, s, fault)

resumeExitSave(S, s, fault) == exitFinish(Resumed(S, s), s, fault)

(***************************************************************************)
(* Actions of the viewer                                                   *)
(***************************************************************************)
OpOf(S) ==
    IF S.sessions[S.activeSessionId].cleaned THEN "cleanup" ELSE "call"

Enter(lectureId) ==
    /\ activeSessionId < MaxSessions
    /\ \E l \in lectures : l.id = lectureId
    /\ \E S \in { enter(St, lectureId, TRUE, "none") } : Commit(S, OpOf(S))

ResumeSavePos(s) ==
    /\ sessions[s].pc = "savePos"
    /\ CanResume(s)
    /\ Commit(resumeSavePos(St, s, "none"), "cleanup")

ResumeGetLecture(s) ==
    /\ sessions[s].pc = "getLecture"
    /\ CanResume(s)
    /\ Commit(resumeGetLecture(St, s), "resume")

ResumePutOpened(s) ==
    /\ sessions[s].pc = "putOpened"
    /\ CanResume(s)
    /\ Commit(resumePutOpened(St, s), "resume")

ResumeGetCourse(s) ==
    /\ sessions[s].pc = "getCourse"
    /\ CanResume(s)
    /\ Commit(resumeGetCourse(St, s), "resume")

ResumeListing(s) ==
    /\ sessions[s].pc = "listing"
    /\ Commit(resumeListing(St, s), "resume")

ResumeHealPut(s) ==
    /\ sessions[s].pc = "healPut"
    /\ CanResume(s)
    /\ Commit(resumeHealPut(St, s), "resume")

ResumeGetFileVideo(s) ==
    /\ sessions[s].pc = "getFileVideo"
    /\ Commit(resumeGetFileVideo(St, s), "resume")

ResumeGetFilePdf(s) ==
    /\ sessions[s].pc = "getFilePdf"
    /\ Commit(resumeGetFilePdf(St, s), "resume")

\* The back button of the study header, or Escape in study mode.
Exit ==
    /\ activeSessionId < MaxSessions
    /\ mode = "study"
    /\ \E S \in { exit(St, TRUE, "none") } : Commit(S, OpOf(S))

ResumeExitSave(s) ==
    /\ sessions[s].pc = "exitSave"
    /\ CanResume(s)
    /\ Commit(resumeExitSave(St, s, "none"), "cleanup")

\* The user scrolls a PDF viewer that is on screen.
PdfScroll(id) ==
    /\ \E t \in timers :
          /\ t.id = id
          /\ t.page < MaxPage
          /\ [sid |-> id, view |-> "pdf"] \in dom
          /\ timers' = (timers \ {t}) \cup { [t EXCEPT !.page = t.page + 1] }
    /\ lastOp' = "scroll"
    /\ UNCHANGED << disk, unreadable, diskOps, providers, courses, lectures, nextId,
                    syncResult, cleanPasses, toggles, reorders, dirty,
                    removed, isSyncing >>
    /\ UNCHANGED probeVars
    /\ UNCHANGED << activeSessionId, currentLecture, currentFile, currentObjectURL,
                    pdfPollInterval, player, playerTime, mode, sessions, dbPending,
                    liveURLs, dom, effects >>

\* One firing of the setInterval callback of renderPdfViewer.
PdfPollTick(id) ==
    \E t \in timers :
        /\ t.id = id
        /\ [sid |-> id, view |-> "pdf"] \in dom
        /\ t.page # t.lastSavedPage
        /\ currentLecture # NoLecture
        /\ LET S1 == [St EXCEPT !.timers = (@ \ {t}) \cup { [t EXCEPT !.lastSavedPage = t.page] },
                                !.currentLecture.lastPosition = t.page]
               S2 == [S1 EXCEPT !.lectures = DBput(@, S1.currentLecture)]
           IN Commit(IF activeSessionId # id
                     THEN [S2 EXCEPT !.effects = @ \cup
                             { [sid |-> id, at |-> "timer", what |-> "put",
                                row |-> S2.currentLecture.id, stale |-> t.bornStale] }]
                     ELSE S2,
                     "timer")

PlayerAdvance ==
    /\ player # 0
    /\ playerTime < MaxTime
    /\ Commit([St EXCEPT !.playerTime = @ + 1], "play")

\* The 'pause' handler; the 'timeupdate' handler does the same when it saves.
PlayerPause ==
    /\ player # 0
    /\ currentLecture # NoLecture
    /\ LET S1 == [St EXCEPT !.currentLecture.lastPosition = playerTime]
       IN Commit([S1 EXCEPT !.lectures = DBput(@, S1.currentLecture)], "pause")

\* The 'ended' handler.
PlayerEnded ==
    /\ player # 0
    /\ currentLecture # NoLecture
    /\ LET S1 == savePosition(St)
           S2 == [S1 EXCEPT !.lectures = DBput(@, S1.currentLecture)]
           S3 == IF ~S2.currentLecture.completed
                 THEN [S2 EXCEPT !.currentLecture.completed = TRUE]
                 ELSE S2
       IN Commit([S3 EXCEPT !.lectures = DBput(@, S3.currentLecture)], "ended")

\* The catalog the viewer starts from: one pass over this tree.
StudyDisk ==
    [d \in CourseDirs |->
        IF d = DirMain THEN [present |-> TRUE, files |-> {File_a, File_b}]
        ELSE IF d = DirTwo THEN [present |-> TRUE, files |-> {File_ai}]
        ELSE [present |-> FALSE, files |-> {}]]

InitStudy ==
    /\ disk = StudyDisk
    /\ unreadable = {}
    /\ diskOps = 0
    /\ \E r \in { syncPass(StudyDisk, {}, {}, {}, {}, 1) } :
          /\ providers = r.providers
          /\ courses = r.courses
          /\ lectures = r.lectures
          /\ nextId = r.nextId
    /\ syncResult = NoResult
    /\ cleanPasses = 0
    /\ toggles = 0
    /\ reorders = 0
    /\ dirty = FALSE
    /\ removed = NoRemoval
    /\ isSyncing = FALSE
    /\ NoProbe
    /\ lastOp = "init"
    /\ StudyInit

NextStudy ==
    \/ \E id \in 1..MaxId : Enter(id)
    \/ Exit
    \/ \E s \in 1..MaxSessions :
          \/ ResumeSavePos(s)
          \/ ResumeGetLecture(s)
          \/ ResumePutOpened(s)
          \/ ResumeGetCourse(s)
          \/ ResumeListing(s)
          \/ ResumeHealPut(s)
          \/ ResumeGetFileVideo(s)
          \/ ResumeGetFilePdf(s)
          \/ ResumeExitSave(s)
          \/ PdfScroll(s)
          \/ PdfPollTick(s)
    \/ PlayerAdvance
    \/ PlayerPause
    \/ PlayerEnded

SpecStudy == InitStudy /\ [][NextStudy]_vars

(***************************************************************************)
(* The viewer while files of the course folders are renamed on disk and no *)
(* pass runs                                                               *)
(***************************************************************************)
\* The names a file is renamed to: a-i.mp4 sorts before a.mp4 and b.pdf.
RenameTargets == { File_ai }

\* One file is renamed after the pass that built the catalog.
RenameOnDisk(d, f, g) ==
    /\ ~dirty
    /\ disk[d].present
    /\ f \in disk[d].files
    /\ g \in RenameTargets \ disk[d].files
    /\ disk' = [disk EXCEPT ![d].files = (@ \ {f}) \cup {g}]
    /\ diskOps' = diskOps + 1
    /\ cleanPasses' = 0
    /\ lastOp' = "disk"
    /\ dirty' = TRUE
    /\ UNCHANGED << unreadable, providers, courses, lectures, nextId, syncResult,
                    toggles, reorders, removed, isSyncing >>
    /\ UNCHANGED studyVars
    /\ UNCHANGED probeVars

\* Opening and leaving lectures, without playback events.
NextHeal ==
    \/ \E id \in 1..MaxId : Enter(id)
    \/ Exit
    \/ \E s \in 1..MaxSessions :
          \/ ResumeSavePos(s)
          \/ ResumeGetLecture(s)
          \/ ResumePutOpened(s)
          \/ ResumeGetCourse(s)
          \/ ResumeListing(s)
          \/ ResumeHealPut(s)
          \/ ResumeGetFileVideo(s)
          \/ ResumeGetFilePdf(s)
          \/ ResumeExitSave(s)
    \/ \E d \in CourseDirs, f \in FileNames, g \in RenameTargets : RenameOnDisk(d, f, g)

SpecHeal == InitStudy /\ [][NextHeal]_vars

-----------------------------------------------------------------------------
\* The viewer and the reconciler side by side: lectures are opened and left
\* while files and folders are removed, lectures are reordered in the list and
\* passes run. A pass runs between two steps of the viewer.

\* One change of the tree or of the list order is made in a behaviour.
FirstEdit == Edits = 0

NextLive ==
    \/ \E id \in 1..MaxId : Enter(id)
    \/ Exit
    \/ \E s \in 1..MaxSessions :
          \/ ResumeSavePos(s)
          \/ ResumeGetLecture(s)
          \/ ResumePutOpened(s)
          \/ ResumeGetCourse(s)
          \/ ResumeListing(s)
          \/ ResumeHealPut(s)
          \/ ResumeGetFileVideo(s)
          \/ ResumeGetFilePdf(s)
          \/ ResumeExitSave(s)
    \/ syncToDatabase
    \/ \E d \in CourseDirs, f \in FileNames : FirstEdit /\ RemoveFile(d, f)
    \/ \E d \in CourseDirs : FirstEdit /\ RemoveCourseFolder(d)
    \/ \E d \in CourseDirs : FirstEdit /\ RevokeAccess(d)
    \/ \E c \in 1..MaxId, i \in 0..(Cardinality(FileNames) - 1),
          j \in 0..(Cardinality(FileNames) - 1) :
             FirstEdit /\ LectureList_reorderLectures(c, i, j)

SpecLive == InitStudy /\ [][NextLive]_vars

-----------------------------------------------------------------------------
\* FileSystem.matchPaperFolder called on its own: the folder name and the list
\* of papers are the arguments of one call.

MaxPapers == 2

\* Paper rows a list may hold: three of the seeded ones, and two rows whose
\* short name or full name normalizes to the identifier of another row.
PaperRows ==
    { initialPapers[1], initialPapers[2], initialPapers[5],
      [id |-> <<"p","1">>, name |-> <<"G","S"," ","2">>, fullName |-> <<"C","S","A","T">>],
      [id |-> <<"p","2">>, name |-> <<"P","2">>, fullName |-> <<"g","s","-","1">>] }

\* Lists of at most MaxPapers rows with distinct ids.
PaperLists ==
    { l \in UNION { [1..n -> PaperRows] : n \in 0..MaxPapers } :
         \A i \in 1..Len(l), j \in 1..Len(l) : i # j => l[i].id # l[j].id }

FolderNames ==
    { GS1, GS_1, Misc, <<"g","s","-","2">>, <<"G","S","2">>, <<"c","s","a","t">>,
      <<"G","e","n","e","r","a","l"," ","S","t","u","d","i","e","s"," ","1">>,
      <<"g","s","9">>, <<"P","_","1">> }

InitMatch ==
    /\ disk = StudyDisk
    /\ unreadable = {}
    /\ diskOps = 0
    /\ providers = {}
    /\ courses = {}
    /\ lectures = {}
    /\ nextId = 1
    /\ syncResult = NoResult
    /\ cleanPasses = 0
    /\ toggles = 0
    /\ reorders = 0
    /\ dirty = TRUE
    /\ removed = NoRemoval
    /\ isSyncing = FALSE
    /\ matchIn \in [folderName : FolderNames, papers : PaperLists]
    /\ matchOut = Pending
    /\ lastOp = "init"
    /\ StudyInit

MatchCall ==
    /\ matchOut = Pending
    /\ matchOut' = matchPaperFolder(matchIn.folderName, matchIn.papers)
    /\ UNCHANGED << matchIn, syncVars, studyVars >>

NextMatch == MatchCall

SpecMatch == InitMatch /\ [][NextMatch]_vars

\* Positions of the list whose row passes a test.
Hits(papers, Test(_)) == { i \in 1..Len(papers) : Test(papers[i]) }

First(S) == CHOOSE i \in S : \A j \in S : i <= j

\* The category found by trying the four steps in turn, each over the whole
\* list: identifier, short name, full name, family prefix plus digits.
ByPriority(folderName, papers) ==
    LET n == normalizeName(folderName)
        byId == Hits(papers, LAMBDA p : normalizeName(p.id) = n)
        byName == Hits(papers, LAMBDA p : normalizeName(p.name) = n)
        byFull == Hits(papers, LAMBDA p : normalizeName(p.fullName) = n)
        byPattern == Hits(papers, LAMBDA p : numericMatch(n) /\ normalizeName(p.id) = n)
    IN IF byId # {} THEN papers[First(byId)].id
       ELSE IF byName # {} THEN papers[First(byName)].id
       ELSE IF byFull # {} THEN papers[First(byFull)].id
       ELSE IF byPattern # {} THEN papers[First(byPattern)].id
       ELSE NoPaper

EnterFails(lectureId, putOk, fault) ==
    /\ activeSessionId < MaxSessions
    /\ \E l \in lectures : l.id = lectureId
    /\ IF currentLecture # NoLecture THEN ~putOk /\ fault = "none"
       ELSE putOk /\ fault \in CleanupFaults /\ FaultPossible(St, fault)
    /\ \E S \in { enter(St, lectureId, putOk, fault) } : Commit(S, OpOf(S))

ResumeSavePosFails(s, fault) ==
    /\ sessions[s].pc = "savePos"
    /\ CanResume(s)
    /\ fault \in CleanupFaults
    /\ FaultPossible(St, fault)
    /\ Commit(resumeSavePos(St, s, fault), "cleanup")

ExitFails(putOk, fault) ==
    /\ activeSessionId < MaxSessions
    /\ mode = "study"
    /\ IF currentLecture # NoLecture THEN ~putOk /\ fault = "none"
       ELSE putOk /\ fault \in CleanupFaults /\ FaultPossible(St, fault)
    /\ \E S \in { exit(St, putOk, fault) } : Commit(S, OpOf(S))

ResumeExitSaveFails(s, fault) ==
    /\ sessions[s].pc = "exitSave"
    /\ CanResume(s)
    /\ fault \in CleanupFaults
    /\ FaultPossible(St, fault)
    /\ Commit(resumeExitSave(St, s, fault), "cleanup")

NextStudyFaults ==
    \/ NextStudy
    \/ \E id \in 1..MaxId, putOk \in BOOLEAN, fault \in CleanupFaults \cup {"none"} :
          EnterFails(id, putOk, fault)
    \/ \E putOk \in BOOLEAN, fault \in CleanupFaults \cup {"none"} :
          ExitFails(putOk, fault)
    \/ \E s \in 1..MaxSessions, fault \in CleanupFaults :
          \/ ResumeSavePosFails(s, fault)
          \/ ResumeExitSaveFails(s, fault)

SpecStudyFaults == InitStudy /\ [][NextStudyFaults]_vars

(***************************************************************************)
(* Properties of the viewer                                                *)
(***************************************************************************)
AllDone == \A s \in 1..MaxSessions : sessions[s].pc \in {"idle", "done", "failed"}

OnlyEnters == \A s \in 1..activeSessionId : sessions[s].kind = "enter"

\* C2: when enter(B) superseded enter(A) before A's file read completed, no
\* position save of A's session reaches the store afterwards: the page poll
\* of a viewer that A built after it was superseded never writes a row.
C2_SessionCancellation ==
    \A e \in effects : e.at = "timer" => ~e.stale

\* C3: a session that resumes from an await after it was superseded issues no
\* DB.put, assigns none of currentFile / currentObjectURL / pdfPollInterval
\* and renders nothing.
C3_StaleSessionsInert ==
    \A e \in effects :
        e.at \in {"putOpened", "listing", "getFile"} => ~e.stale

\* The file at the lecture's orderIndex in the sorted listing of its own
\* course folder.
OwnFile(lecture) ==
    LET course == DBget(courses, lecture.courseId, NoCourse)
        d == SplitPath(course.folderPath, <<>>)
        files == scanCourseFolder(disk, d)
    IN IF course = NoCourse \/ lecture.orderIndex >= Len(files) THEN NoFile
       ELSE [name |-> files[lecture.orderIndex + 1].name,
             type |-> files[lecture.orderIndex + 1].type,
             dir |-> d, by |-> activeSessionId]

\* C4: once overlapping enter() calls have all finished, currentLecture is the
\* lecture requested last, and currentFile is null or the file that the last
\* session resolved at that lecture's orderIndex in its own course folder.
C4_LastRequestWins ==
    (AllDone /\ OnlyEnters /\ activeSessionId >= 2) =>
        /\ currentLecture.id = sessions[activeSessionId].lectureId
        /\ \/ currentFile = NoFile
           \/ /\ currentFile.name = OwnFile(currentLecture).name
              /\ currentFile.dir = OwnFile(currentLecture).dir

\* C5: the self-heal of the session that opened lecture L writes L's row only.
C5_SelfHealOwnRow ==
    \A e \in effects : e.what = "heal" => e.row = sessions[e.sid].lectureId

\* C9: when the put of savePosition fails in exit() or in enter(), cleanup()
\* still runs in that call.
C9_BestEffortSave ==
    \A s \in 1..MaxSessions : sessions[s].saveFailed => sessions[s].cleaned

\* C16: a lecture's completed flag changes only through an explicit toggle by
\* the user; no playback event, no open or exit and no pass changes it.
C16_ManualCompletionOnly ==
    [][ lastOp' # "toggle" =>
          \A l \in lectures : \A m \in lectures' :
              m.id = l.id => m.completed = l.completed ]_vars

\* The stored row of the lecture that session s opens, its course folder and
\* the sorted listing of that folder.
OpenedRow(s) == DBget(lectures, sessions[s].lectureId, NoLecture)

OpenedDir(s) ==
    SplitPath(DBget(courses, OpenedRow(s).courseId, NoCourse).folderPath, <<>>)

OpenedListing(s) == scanCourseFolder(disk, OpenedDir(s))

\* The file at the sorted position of the lecture's orderIndex bears another
\* name than the stored fileName.
Renamed(s) ==
    /\ OpenedRow(s) # NoLecture
    /\ OpenedDir(s) \in CourseDirs
    /\ disk[OpenedDir(s)].present
    /\ OpenedRow(s).orderIndex < Len(OpenedListing(s))
    /\ OpenedListing(s)[OpenedRow(s).orderIndex + 1].name # OpenedRow(s).fileName

\* C17: when the file at sorted position k of a course folder bears a name
\* other than the stored fileName of the lecture whose orderIndex is k, the
\* directory listing of the current session that opens this lecture sets the
\* row's fileName to the name on disk and its title to the title derived from
\* it, and leaves every other field of the row as it was.
C17_RenameSelfHeal ==
    [][ \A s \in 1..MaxSessions :
          ( /\ activeSessionId = s
            /\ sessions[s].pc = "listing"
            /\ sessions'[s].pc # "listing"
            /\ Renamed(s) ) =>
          LET onDisk == OpenedListing(s)[OpenedRow(s).orderIndex + 1].name
          IN DBget(lectures', sessions[s].lectureId, NoLecture) =
                [OpenedRow(s) EXCEPT !.fileName = onDisk,
                                     !.title = getTitleFromFilename(onDisk)] ]_vars

\* A file has been renamed on disk and the current session, opening the
\* lecture at its position, has rewritten that lecture's row to the new name.
C17_Witness ==
    /\ diskOps >= 1
    /\ \E e \in effects :
          /\ e.what = "heal"
          /\ ~e.stale
          /\ e.sid = activeSessionId
          /\ e.row = sessions[e.sid].lectureId
          /\ \E l \in lectures :
                /\ l.id = e.row
                /\ l.fileName \in disk[DirMain].files \ StudyDisk[DirMain].files

\* C27: in every reachable state no two lectures of the same course have the
\* same fileName.
C27_FileNameIsKey ==
    \A l1 \in lectures, l2 \in lectures :
        (l1.courseId = l2.courseId /\ l1.fileName = l2.fileName) => l1.id = l2.id

\* C25: every lecture row references an existing course, and a lecture row that
\* a pass has deleted is never inserted again: an id handed out earlier and
\* absent from the lectures store stays absent.
C25_NoResurrection ==
    [][ /\ \A l \in lectures' : \E c \in courses' : c.id = l.courseId
        /\ \A id \in 1..MaxId :
              (id < nextId /\ id \notin { l.id : l \in lectures }) =>
                 id \notin { l.id : l \in lectures' } ]_vars

\* C26: once a pass has changed the orderIndex of a lecture, no later write of
\* the viewing session puts the earlier orderIndex back: while the list has not
\* been reordered by hand, so that passes alone assign orderIndex, a step of the
\* viewer leaves the orderIndex of every stored lecture as it is.
C26_NoLostUpdate ==
    [][ (reorders' = 0 /\ lastOp' \notin {"sync", "disk"}) =>
           \A l \in lectures, m \in lectures' :
              l.id = m.id => m.orderIndex = l.orderIndex ]_vars

\* C28: after the lectures of a course have been reordered in the list, with
\* the directory tree as the last pass saw it, the listing step of the session
\* that opened a lecture binds the file named by the lecture's stored fileName
\* and rewrites neither fileName nor title.
C28_ReorderKeepsBinding ==
    [][ \A s \in 1..MaxSessions :
           ( /\ reorders > 0
             /\ ~dirty
             /\ s = activeSessionId
             /\ sessions[s].pc = "listing"
             /\ sessions'[s].pc # "listing"
             /\ currentLecture.id = sessions[s].lectureId ) =>
              /\ currentFile'.name = currentLecture.fileName
              /\ \A l \in lectures, m \in lectures' :
                    l.id = m.id => (m.fileName = l.fileName /\ m.title = l.title) ]_vars

\* The folder of the lecture opened by session s cannot be listed, or holds no
\* classified file at the position of the lecture's orderIndex.
NothingAtPosition(s) ==
    LET d == SplitPath(sessions[s].course.folderPath, <<>>)
    IN \/ d \in unreadable
       \/ currentLecture.orderIndex >= Len(scanCourseFolder(disk, d))

\* C22: when the folder cannot be listed or holds no classified file at the
\* position of the lecture's orderIndex, the session that opened the lecture
\* ends its file lookup with currentFile null and no store write, and enter()
\* completes by rendering the not-found state.
C22_NotFoundResolution ==
    [][ \A s \in 1..MaxSessions :
           ( /\ s = activeSessionId
             /\ sessions[s].pc = "listing"
             /\ sessions'[s].pc # "listing"
             /\ currentLecture.id = sessions[s].lectureId
             /\ NothingAtPosition(s) ) =>
              /\ currentFile' = NoFile
              /\ lectures' = lectures
              /\ sessions'[s].pc = "done"
              /\ dom' = { [sid |-> s, view |-> "notfound"] } ]_vars

\* The name of the file that opening lecture l binds: the entry of the sorted
\* listing of its course folder at the position of l.orderIndex, none when the
\* listing is shorter.
BoundAt(l) ==
    LET course == DBget(courses, l.courseId, NoCourse)
        files == scanCourseFolder(disk, SplitPath(course.folderPath, <<>>))
    IN IF l.orderIndex < Len(files) THEN files[l.orderIndex + 1].name ELSE NoFile.name

\* C21: right after a completed pass, with the directory tree as the pass saw
\* it, opening any lecture binds the file whose name is the lecture's stored
\* fileName, so that the self-heal has nothing to write.
C21_BindingAgreesWithPass ==
    (lastOp = "sync" /\ syncResult.status = "ok") =>
       \A l \in lectures : BoundAt(l) = l.fileName

\* C31: opening a lecture never changes the directory tree: a step of the
\* viewer leaves every folder and every file of the tree as it is, and creates
\* no folder that is missing.
C31_OpenReadsOnly ==
    [][ lastOp' # "disk" => disk' = disk ]_vars

\* C33: whenever the listing step of the session that opened a lecture binds a
\* file, with or without a heal, the lecture's stored type is the
\* classification of that file.
C33_TypeMatchesFile ==
    [][ \A s \in 1..MaxSessions :
           ( /\ s = activeSessionId
             /\ sessions[s].pc = "listing"
             /\ sessions'[s].pc # "listing"
             /\ currentLecture.id = sessions[s].lectureId
             /\ currentFile' # NoFile
             /\ currentFile'.by = s ) =>
              /\ currentFile'.type = classifyFile(currentFile'.name)
              /\ currentLecture'.type = currentFile'.type
              /\ DBget(lectures', sessions[s].lectureId, NoLecture).type = currentFile'.type
       ]_vars

\* The session with this id is the current one, or the calls made after it
\* have not reached their cleanup() yet.
NotYetReplaced(id) ==
    \A k \in (id + 1)..activeSessionId : ~sessions[k].cleaned

\* C34: at most one poll timer and at most one object URL are live, each
\* created by the current session (or by the one before it, until the cleanup
\* of the call that replaces it has run), and the timer of a superseded session
\* writes no lastPosition.
C34_ResourcesOfCurrentSession ==
    [][ /\ Cardinality(timers') <= 1
        /\ Cardinality(liveURLs') <= 1
        /\ \A t \in timers' : NotYetReplaced(t.id)'
        /\ \A u \in liveURLs' : NotYetReplaced(u)'
        /\ (lastOp' = "timer" /\ lectures' # lectures) =>
              \E t \in timers : t.id = activeSessionId /\ t \notin timers' ]_vars

\* exit() was the last call, and it and every enter() have finished.
ExitSettled ==
    /\ activeSessionId >= 1
    /\ sessions[activeSessionId].kind = "exit"
    /\ sessions[activeSessionId].pc = "done"
    /\ \A s \in 1..MaxSessions : sessions[s].pc \in {"idle", "done", "failed"}

\* C35: once exit() has been called and it and every enter() have finished,
\* mode is 'browse' and currentLecture and currentFile are null; the viewer
\* enters study mode only in the step of the current enter() that follows its
\* lecture lookup, never in a step of a superseded one.
C35_ExitWins ==
    [][ /\ ExitSettled' =>
              /\ mode' = "browse"
              /\ currentLecture' = NoLecture
              /\ currentFile' = NoFile
        /\ (mode # "study" /\ mode' = "study") =>
              /\ sessions[activeSessionId].kind = "enter"
              /\ sessions[activeSessionId].pc = "getLecture"
              /\ sessions'[activeSessionId].pc # "getLecture" ]_vars

\* exit() has settled, and an enter() it superseded resumed after exit's
\* cleanup: the object URL that enter() created is still live.
C35_Witness ==
    /\ ExitSettled
    /\ liveURLs # {}

\* C23: activeSessionId never decreases; every enter() and every exit() raises
\* it by exactly one and captures the new value, and an id once captured by a
\* call is never captured by another call.
C23_SessionIdsMonotonic ==
    [][ /\ activeSessionId' \in {activeSessionId, activeSessionId + 1}
        /\ \A s \in 1..MaxSessions :
              /\ (sessions[s].kind = "none" /\ sessions'[s].kind # "none") =>
                    (activeSessionId' = activeSessionId + 1 /\ s = activeSessionId')
              /\ sessions[s].kind # "none" =>
                    /\ sessions'[s].kind = sessions[s].kind
                    /\ sessions'[s].lectureId = sessions[s].lectureId
                    /\ s <= activeSessionId ]_vars

\* An enter() and a later exit() have each taken a session id.
C23_Witness ==
    /\ activeSessionId >= 2
    /\ \E s \in 1..MaxSessions, t \in 1..MaxSessions :
          s < t /\ sessions[s].kind = "enter" /\ sessions[t].kind = "exit"

\* C10: whenever cleanup() has run, whether it returned or threw, player,
\* currentObjectURL and pdfPollInterval are all released.
C10_CleanupReleasesAll ==
    lastOp = "cleanup" =>
        /\ player = 0
        /\ currentObjectURL = 0
        /\ pdfPollInterval = 0

====
